---- MODULE Spec2Model ----
(***************************************************************************)
(* PairwiseMultCI (tigramite/independence_tests/pairwise_CI.py): a         *)
(* multivariate conditional-independence test that aggregates univariate   *)
(* tests of an inner engine (cond_ind_test.run_test_raw).                  *)
(*                                                                         *)
(* Conventions of the model                                                *)
(*  - array indices are 0-based as in the source; a 1-d numpy array is a   *)
(*    sequence of its elements, a dim_x x dim_y matrix a function on       *)
(*    Cells(dim_x, dim_y);                                                 *)
(*  - real numbers are counted in tenths: 0.5 is 5, 1 is One;              *)
(*  - an optional value is the record None or Float(v);                    *)
(*  - a value block handed to the engine is kept symbolically: the rows    *)
(*    of `array` it was sliced from, its column range and the shape it was *)
(*    reshaped to; a type-tag block is the sequence of the rows of         *)
(*    `data_type` that make up its columns and its range of sample rows.   *)
(***************************************************************************)
EXTENDS Integers, Sequences, FiniteSets, TLC

VARIABLES
    objects,            \* PairwiseMultCI instances: id -> attributes
    engines,            \* univariate engines: id -> attributes
    pc,                 \* position inside calculate_dep_measure_and_significance
    self,               \* the object the running call was made on
    entry,              \* the public operation that started the running call
    xyz,                \* argument xyz
    T,                  \* array.shape[1]
    data_type,          \* argument data_type: "None" or "given"
    fixed_thres_bool,   \* local
    size_first_block,   \* local
    z_type_s2,          \* local (re-assigned in the main loop)
    z_type,             \* local (re-assigned in the main loop)
    p_vals_pre,         \* local
    vals_pre,           \* local
    indep_set,          \* local
    p_vals_main,        \* local
    test_stats_main,    \* local
    j,                  \* outer loop index
    jj,                 \* inner loop index
    invocations,        \* history: the run_test_raw invocations of the call
    results,            \* history: what each of these invocations returned
    start,              \* history: the regime tags when the call started
    ret                 \* what the last operation handed back to its caller

vars == <<objects, engines, pc, self, entry, xyz, T, data_type,
          fixed_thres_bool, size_first_block, z_type_s2, z_type, p_vals_pre,
          vals_pre, indep_set, p_vals_main, test_stats_main, j, jj,
          invocations, results, start, ret>>

locals == <<z_type_s2, z_type, p_vals_pre, vals_pre, indep_set, p_vals_main,
            test_stats_main, j, jj, invocations, results>>

----------------------------------------------------------------------------
(* Bounds of the model *)

MaxDim == 2         \* dim_x, dim_y <= MaxDim
MaxPairs == 4       \* dim_x * dim_y <= MaxPairs
MaxDimZ == 2        \* dim_z is 0 or MaxDimZ
MaxT == 4           \* T = MaxT samples

(* Program constants (tenths where real) *)

One == 10           \* the literal 1 of the Bonferroni cap
AlphaPreDefault == 5 \* alpha_pre = 0.5
Sentinel == 999     \* alpha_or_thres = 999.
ThresPre == 2       \* fixed_thres_pre = 2 of the test fixture

None == [none |-> TRUE]
Float(v) == [float |-> v]
IsNumber(r) == "float" \in DOMAIN r
Undefined == "undefined"

ObjectIds == {"A"}
Significances == {"analytic", "fixed_thres"}
Fractions == {2, 5, 10}                 \* pre_step_sample_fraction 0.2, 0.5, 1.0
Entries == {"calculate_dep_measure_and_significance", "get_dependence_measure"}
TValues == {MaxT}
Dims == {d \in (1 .. MaxDim) \X (1 .. MaxDim) : d[1] * d[2] <= MaxPairs}
DimsZ == {0, MaxDimZ}

\* constructor arguments <<cond_ind_test, significance, fixed_thres_pre>>:
\* "None" leaves cond_ind_test to its default; a threshold for the pre-step
\* is passed only along with a fixed-threshold tag, as the tests do
Configurations ==
    {c \in {"None", "fixed_thres"} \X Significances \X {None, Float(ThresPre)} :
        c[3] # None => (c[1] = "fixed_thres" \/ c[2] = "fixed_thres")}

----------------------------------------------------------------------------
(* numpy helpers *)

Min(a, b) == IF a <= b THEN a ELSE b
Abs(v) == IF v < 0 THEN -v ELSE v
Range(s) == {s[i] : i \in 1 .. Len(s)}

\* the elements of a finite set of integers in ascending order
SortedSeq(S) ==
    CHOOSE s \in [1 .. Cardinality(S) -> S] :
        \A a, b \in 1 .. Cardinality(S) : a < b => s[a] < s[b]

\* a[idx] for an index array idx (0-based indices)
Take(a, idx) == [i \in 1 .. Len(idx) |-> a[idx[i] + 1]]

\* np.where(v == value)[0]
Where(v, value) == SortedSeq({i - 1 : i \in {k \in 1 .. Len(v) : v[k] = value}})

\* np.setdiff1d(a, value)
setdiff1d(a, value) == SortedSeq(Range(a) \ {value})

Cells(dx, dy) == (0 .. dx - 1) \X (0 .. dy - 1)

\* np.zeros((dx, dy))
zeros(dx, dy) == [c \in Cells(dx, dy) |-> 0]

\* np.where(B) of a boolean dx x dy matrix: the pair of index arrays, row-major
where2d(B, dx, dy) ==
    LET order == [k \in 1 .. dx * dy |-> <<(k - 1) \div dy, (k - 1) % dy>>]
        Hit(c) == B[c]
        hits == SelectSeq(order, Hit)
    IN  << [i \in 1 .. Len(hits) |-> hits[i][1]],
           [i \in 1 .. Len(hits) |-> hits[i][2]] >>

\* np.max(M), np.min(M) of a non-empty matrix
MatMax(M) == CHOOSE v \in {M[c] : c \in DOMAIN M} : \A c \in DOMAIN M : M[c] <= v
MatMin(M) == CHOOSE v \in {M[c] : c \in DOMAIN M} : \A c \in DOMAIN M : v <= M[c]

\* np.floor(fraction * T) with fraction in tenths
Floor(fraction, t) == (fraction * t) \div One

----------------------------------------------------------------------------
(* Blocks handed to the engine *)

Unset == [unset |-> TRUE]

\* array[rows, lo:hi].reshape(shape)
Block(rows, lo, hi, shape) == [rows |-> rows, cols |-> <<lo, hi>>, shape |-> shape]

\* data_type[tags, :].T[lo:hi, :], or None when data_type is None
TypeBlock(dt, tags, lo, hi) ==
    IF dt = "None" THEN None ELSE [tags |-> tags, rows |-> <<lo, hi>>]

\* np.hstack of two type-tag blocks over the same sample rows
hstackTypes(a, b) == [tags |-> a.tags \o b.tags, rows |-> a.rows]

\* number of columns of an np.hstack of reshaped value blocks
Columns(parts) ==
    LET RECURSIVE Sum(_)
        Sum(k) == IF k = 0 THEN 0 ELSE parts[k].shape[2] + Sum(k - 1)
    IN  Sum(Len(parts))

x_indices == Where(xyz, 0)
y_indices == Where(xyz, 1)
z_indices == Where(xyz, 2)
dim_x == Len(x_indices)
dim_y == Len(y_indices)
dim_z == Len(z_indices)

\* xyz of an array that stacks dx X-rows, dy Y-rows and dz Z-rows
Stacked(dx, dy, dz) ==
    [i \in 1 .. dx + dy + dz |-> IF i <= dx THEN 0 ELSE IF i <= dx + dy THEN 1 ELSE 2]

x_type_s1 == TypeBlock(data_type, x_indices, 0, size_first_block)
x_type_s2 == TypeBlock(data_type, x_indices, size_first_block, T)
y_type_s1 == TypeBlock(data_type, y_indices, 0, size_first_block)
y_type_s2 == TypeBlock(data_type, y_indices, size_first_block, T)
z_type_s1 == TypeBlock(data_type, z_indices, 0, size_first_block)

----------------------------------------------------------------------------
(* The univariate engine: cond_ind_test.run_test_raw.  Its results are not *)
(* computed here: every invocation yields one of a few (statistic,         *)
(* p-value) pairs; with alpha_or_thres supplied the second slot is a       *)
(* placeholder.  On a block without samples the engine may also fail.      *)

EngineResults(alpha_or_thres) ==
    IF alpha_or_thres = None
    THEN {<<-2, 1>>, <<1, 6>>}
    ELSE {<<-2, One>>, <<1, One>>}

EngineMayFail(x) == x.shape[1] = 0

----------------------------------------------------------------------------
(* Pieces of calculate_dep_measure_and_significance *)

\* the resolution without line 115: the object's tag is not aligned with
\* the engine's
RegimeResolution_NoSync(significance, engine_significance) ==
    LET engine1 == IF significance = "fixed_thres" THEN "fixed_thres"
                   ELSE engine_significance
    IN  [fixed_thres_bool |-> significance = "fixed_thres" \/ engine1 = "fixed_thres",
         engine_significance |-> engine1,
         significance |-> significance]

\* lines 109-115: the regime and the two tags after the resolution
RegimeResolution(significance, engine_significance) ==
    LET engine1 == IF significance = "fixed_thres" THEN "fixed_thres"
                   ELSE engine_significance
        bool == significance = "fixed_thres" \/ engine1 = "fixed_thres"
    IN  [fixed_thres_bool |-> bool,
         engine_significance |-> engine1,
         significance |-> IF engine1 = "fixed_thres" THEN "fixed_thres"
                          ELSE significance]

\* line 117 with the regime test negated
ConfigError_Negated(bool, fixed_thres_pre) == ~bool /\ fixed_thres_pre = None

\* line 117
ConfigError(bool, fixed_thres_pre) == bool /\ fixed_thres_pre = None

\* the alpha_or_thres argument of every run_test_raw call
AlphaOrThres(bool) == IF bool THEN Float(Sentinel) ELSE None

\* lines 193-196
IndepSet(bool, pvals, vals, alpha_pre, fixed_thres_pre, dx, dy) ==
    IF ~bool
    THEN where2d([c \in Cells(dx, dy) |-> pvals[c] > alpha_pre], dx, dy)
    ELSE where2d([c \in Cells(dx, dy) |-> Abs(vals[c]) >= fixed_thres_pre.float], dx, dy)

\* lines 207-212
IndicesY(indep, a, b) ==
    IF a \in Range(indep[1])
    THEN setdiff1d(Take(indep[2], Where(indep[1], a)), b)
    ELSE <<>>

\* lines 208-215
IndicesX(indep, a, b) ==
    IF b \in Range(indep[2])
    THEN setdiff1d(Take(indep[1], Where(indep[2], b)), a)
    ELSE <<>>

\* the comparison of line 219 with >= : a tie selects the X side
Branch_TieX(lix, liy) ==
    IF lix + liy > 0
    THEN IF lix >= liy THEN "X" ELSE "Y"
    ELSE "Z"

\* lines 218, 219, 239, 260: which branch of the main loop body is taken
Branch(lix, liy) ==
    IF lix + liy > 0
    THEN IF lix > liy THEN "X" ELSE "Y"
    ELSE "Z"

\* line 283 without np.abs
MaxAbs_NoAbs(M) == MatMax(M)

\* line 283
MaxAbs(M) == MatMax([c \in DOMAIN M |-> Abs(M[c])])

\* line 285 without the cap at 1
Bonferroni_NoCap(pvals, dx, dy) == MatMin(pvals) * dx * dy

\* line 285
Bonferroni(pvals, dx, dy) == Min(MatMin(pvals) * dx * dy, One)

----------------------------------------------------------------------------
(* State after the module is loaded: no PairwiseMultCI object yet; the     *)
(* default argument ParCorr() of __init__ (line 73) exists already.        *)

NoCall == [op |-> "none", outcome |-> "none", statistic |-> Unset, significance |-> Unset]

\* the frame of a call that is not running: arguments and locals are gone
NoFrame ==
    [xyz |-> <<>>, data_type |-> "None", fixed_thres_bool |-> FALSE,
     z_type_s2 |-> None, z_type |-> None, p_vals_pre |-> Undefined,
     vals_pre |-> Undefined, indep_set |-> <<<<>>, <<>>>>,
     p_vals_main |-> Undefined, test_stats_main |-> Undefined,
     j |-> 0, jj |-> 0, invocations |-> <<>>, results |-> <<>>]

\* leaving the call (return or raise) discards its frame
Leave ==
    /\ pc' = "idle"
    /\ xyz' = NoFrame.xyz
    /\ data_type' = NoFrame.data_type
    /\ fixed_thres_bool' = NoFrame.fixed_thres_bool
    /\ z_type_s2' = NoFrame.z_type_s2
    /\ z_type' = NoFrame.z_type
    /\ p_vals_pre' = NoFrame.p_vals_pre
    /\ vals_pre' = NoFrame.vals_pre
    /\ indep_set' = NoFrame.indep_set
    /\ p_vals_main' = NoFrame.p_vals_main
    /\ test_stats_main' = NoFrame.test_stats_main
    /\ j' = NoFrame.j
    /\ jj' = NoFrame.jj
    /\ invocations' = NoFrame.invocations
    /\ results' = NoFrame.results

Init ==
    /\ objects = <<>>
    /\ engines = ("default" :> [significance |-> "analytic"])
    /\ pc = "idle"
    /\ self = "A"
    /\ entry = "none"
    /\ xyz = <<>>
    /\ T = 0
    /\ data_type = "None"
    /\ fixed_thres_bool = FALSE
    /\ size_first_block = 0
    /\ z_type_s2 = None
    /\ z_type = None
    /\ p_vals_pre = Undefined
    /\ vals_pre = Undefined
    /\ indep_set = <<<<>>, <<>>>>
    /\ p_vals_main = Undefined
    /\ test_stats_main = Undefined
    /\ j = 0
    /\ jj = 0
    /\ invocations = <<>>
    /\ results = <<>>
    /\ start = [significance |-> "analytic", engine_significance |-> "analytic",
                fixed_thres_pre |-> None]
    /\ ret = NoCall

\* PairwiseMultCI.__init__ (lines 73-80).  own = "None": cond_ind_test is
\* left to its default, the shared ParCorr(); otherwise a new engine of
\* that significance is passed, as ParCorr(significance = own) of the tests.
Construct(o, own, significance, fraction, fixed_thres_pre) ==
    /\ pc = "idle"
    /\ o \notin DOMAIN objects
    /\ engines' = IF own = "None" THEN engines
                  ELSE engines @@ (o :> [significance |-> own])
    /\ objects' = objects @@ (o :>
            [cond_ind_test |-> IF own = "None" THEN "default" ELSE o,
             alpha_pre |-> AlphaPreDefault,
             pre_step_sample_fraction |-> fraction,
             fixed_thres_pre |-> fixed_thres_pre,
             two_sided |-> FALSE,
             significance |-> significance,
             dep_measure |-> Unset,
             signif |-> Unset])
    /\ ret' = [NoCall EXCEPT !.op = "__init__", !.outcome = "return"]
    /\ UNCHANGED <<pc, self, entry, xyz, T, data_type, fixed_thres_bool,
                   size_first_block, start>>
    /\ UNCHANGED locals

\* lines 109-175: regime resolution, configuration check, sample split
Call(o, op, xyz_arg, T_arg, data_type_arg) ==
    /\ pc = "idle"
    /\ o \in DOMAIN objects
    /\ LET me == objects[o]
           e == me.cond_ind_test
           r == RegimeResolution(me.significance, engines[e].significance)
           split == Floor(me.pre_step_sample_fraction, T_arg)
       IN  /\ start' = [significance |-> me.significance,
                        engine_significance |-> engines[e].significance,
                        fixed_thres_pre |-> me.fixed_thres_pre]
           /\ objects' = [objects EXCEPT ![o].significance = r.significance]
           /\ engines' = [engines EXCEPT ![e].significance = r.engine_significance]
           /\ self' = o
           /\ entry' = op
           /\ T' = T_arg
           /\ IF ConfigError(r.fixed_thres_bool, me.fixed_thres_pre)
              THEN /\ Leave
                   /\ ret' = [NoCall EXCEPT !.op = op, !.outcome = "ValueError"]
                   /\ UNCHANGED size_first_block
              ELSE /\ pc' = "pre"
                   /\ ret' = [NoCall EXCEPT !.op = op, !.outcome = "running"]
                   /\ fixed_thres_bool' = r.fixed_thres_bool
                   /\ xyz' = xyz_arg
                   /\ data_type' = data_type_arg
                   /\ size_first_block' = split
                   /\ z_type_s2' = TypeBlock(data_type_arg, Where(xyz_arg, 2), split, T_arg)
                   /\ z_type' = TypeBlock(data_type_arg, Where(xyz_arg, 2), 0, T_arg)
                   /\ p_vals_pre' = IF ~r.fixed_thres_bool
                                    THEN zeros(Len(Where(xyz_arg, 0)), Len(Where(xyz_arg, 1)))
                                    ELSE Undefined
                   /\ vals_pre' = IF ~r.fixed_thres_bool
                                  THEN Undefined
                                  ELSE zeros(Len(Where(xyz_arg, 0)), Len(Where(xyz_arg, 1)))
                   /\ indep_set' = NoFrame.indep_set
                   /\ p_vals_main' = Undefined
                   /\ test_stats_main' = Undefined
                   /\ j' = 0
                   /\ jj' = 0
                   /\ invocations' = <<>>
                   /\ results' = <<>>

\* the loop header: advance (j, jj) row-major, leave the loop after the last pair
Advance(next_pc) ==
    IF jj + 1 < dim_y
    THEN j' = j /\ jj' = jj + 1 /\ pc' = pc
    ELSE IF j + 1 < dim_x
         THEN j' = j + 1 /\ jj' = 0 /\ pc' = pc
         ELSE j' = 0 /\ jj' = 0 /\ pc' = next_pc

\* an engine failure propagates out of the call (no handler in the source)
Propagate ==
    /\ Leave
    /\ ret' = [ret EXCEPT !.outcome = "EngineError"]
    /\ UNCHANGED <<objects, engines, self, entry, T, size_first_block, start>>

\* lines 176-192: the arguments of the run_test_raw call of the pre-step loop body
PreStepArgs ==
    [step |-> "pre", j |-> j, jj |-> jj,
     x |-> Block(<<x_indices[j + 1]>>, 0, size_first_block, <<size_first_block, 1>>),
     y |-> Block(<<y_indices[jj + 1]>>, 0, size_first_block, <<size_first_block, 1>>),
     z |-> <<Block(z_indices, 0, size_first_block, <<size_first_block, dim_z>>)>>,
     x_type |-> x_type_s1,
     y_type |-> y_type_s1,
     z_type |-> z_type_s1,
     alpha_or_thres |-> AlphaOrThres(fixed_thres_bool)]

\* lines 176-192: one iteration of the pre-step loop
PreStep ==
    /\ pc = "pre"
    /\ \/ /\ \E res \in EngineResults(PreStepArgs.alpha_or_thres) :
                /\ results' = Append(results, res)
                /\ IF ~fixed_thres_bool
                   THEN /\ p_vals_pre' = [p_vals_pre EXCEPT ![<<j, jj>>] = res[2]]
                        /\ UNCHANGED vals_pre
                   ELSE /\ vals_pre' = [vals_pre EXCEPT ![<<j, jj>>] = res[1]]
                        /\ UNCHANGED p_vals_pre
          /\ invocations' = Append(invocations, PreStepArgs)
          /\ Advance("classify")
          /\ UNCHANGED <<objects, engines, self, entry, xyz, T, data_type,
                         fixed_thres_bool, size_first_block, z_type_s2, z_type,
                         indep_set, p_vals_main, test_stats_main, start, ret>>
       \/ /\ EngineMayFail(PreStepArgs.x)
          /\ Propagate

\* lines 193-203: the independence set and the main-step matrices
Classify ==
    /\ pc = "classify"
    /\ indep_set' = IndepSet(fixed_thres_bool, p_vals_pre, vals_pre,
                             objects[self].alpha_pre, objects[self].fixed_thres_pre,
                             dim_x, dim_y)
    /\ p_vals_main' = IF engines[objects[self].cond_ind_test].significance # "fixed_thres"
                      THEN zeros(dim_x, dim_y) ELSE Undefined
    /\ test_stats_main' = zeros(dim_x, dim_y)
    /\ pc' = "main"
    /\ UNCHANGED <<objects, engines, self, entry, xyz, T, data_type,
                   fixed_thres_bool, size_first_block, z_type_s2, z_type,
                   p_vals_pre, vals_pre, j, jj, invocations, results, start, ret>>

\* lines 207-217 for the pair at the loop indices
indicesY == IndicesY(indep_set, j, jj)
indicesX == IndicesX(indep_set, j, jj)
lix == Len(indicesX)
liy == Len(indicesY)

\* line 221: z_type after the loop body
ZTypeAfter ==
    IF Branch(lix, liy) = "X" /\ x_type_s2 # None
    THEN hstackTypes(z_type_s2, [x_type_s2 EXCEPT !.tags = Take(x_indices, indicesX)])
    ELSE z_type

\* line 241: z_type_s2 after the body of the loop for pair (a, b), entered
\* with z_type_s2 = zt2
ZTypeS2After(a, b, zt2) ==
    LET iX == IndicesX(indep_set, a, b)
        iY == IndicesY(indep_set, a, b)
    IN  IF Branch(Len(iX), Len(iY)) = "Y" /\ y_type_s2 # None
        THEN hstackTypes(zt2, [y_type_s2 EXCEPT !.tags = Take(y_indices, iY)])
        ELSE zt2

\* lines 218-275: the arguments of the run_test_raw call of the body of the
\* loop for pair (a, b), entered with z_type_s2 = zt2
MainArgs(a, b, zt2) ==
    LET n == T - size_first_block
        iX == IndicesX(indep_set, a, b)
        iY == IndicesY(indep_set, a, b)
        z_s2 == Block(z_indices, size_first_block, T, <<n, dim_z>>)
    IN  [step |-> "main", j |-> a, jj |-> b,
         x |-> Block(<<x_indices[a + 1]>>, size_first_block, T, <<n, 1>>),
         y |-> Block(<<y_indices[b + 1]>>, size_first_block, T, <<n, 1>>),
         z |-> CASE Branch(Len(iX), Len(iY)) = "X" ->
                      <<z_s2, Block(Take(x_indices, iX), size_first_block, T, <<n, Len(iX)>>)>>
                 [] Branch(Len(iX), Len(iY)) = "Y" ->
                      <<z_s2, Block(Take(y_indices, iY), size_first_block, T, <<n, Len(iY)>>)>>
                 [] OTHER -> <<z_s2>>,
         x_type |-> x_type_s2,
         y_type |-> y_type_s2,
         z_type |-> ZTypeS2After(a, b, zt2),
         alpha_or_thres |-> AlphaOrThres(fixed_thres_bool)]

MainStepArgs == MainArgs(j, jj, z_type_s2)

\* lines 205-279: one iteration of the main-step loop
MainStep ==
    /\ pc = "main"
    /\ \/ /\ \E test_result \in EngineResults(MainStepArgs.alpha_or_thres) :
                /\ results' = Append(results, test_result)
                /\ test_stats_main' = [test_stats_main EXCEPT ![<<j, jj>>] = test_result[1]]
                /\ IF ~fixed_thres_bool
                   THEN p_vals_main' = [p_vals_main EXCEPT ![<<j, jj>>] = test_result[2]]
                   ELSE UNCHANGED p_vals_main
          /\ invocations' = Append(invocations, MainStepArgs)
          /\ z_type' = ZTypeAfter
          /\ z_type_s2' = ZTypeS2After(j, jj, z_type_s2)
          /\ Advance("aggregate")
          /\ UNCHANGED <<objects, engines, self, entry, xyz, T, data_type,
                         fixed_thres_bool, size_first_block, p_vals_pre, vals_pre,
                         indep_set, start, ret>>
       \/ /\ EngineMayFail(MainStepArgs.x)
          /\ Propagate

\* line 283
TestStatsAggregated == MaxAbs(test_stats_main)

\* lines 284-287
PAggregated ==
    IF engines[objects[self].cond_ind_test].significance # "fixed_thres"
    THEN Float(Bonferroni(p_vals_main, dim_x, dim_y))
    ELSE None

\* lines 282-289, and lines 294-296 when entered through get_dependence_measure
Aggregate ==
    /\ pc = "aggregate"
    /\ IF entry = "get_dependence_measure"
       THEN /\ objects' = [objects EXCEPT
                              ![self].dep_measure = Float(TestStatsAggregated),
                              ![self].signif = PAggregated]
            /\ ret' = [op |-> entry, outcome |-> "return",
                       statistic |-> Float(TestStatsAggregated),
                       significance |-> Unset]
       ELSE /\ UNCHANGED objects
            /\ ret' = [op |-> entry, outcome |-> "return",
                       statistic |-> Float(TestStatsAggregated),
                       significance |-> PAggregated]
    /\ Leave
    /\ UNCHANGED <<engines, self, entry, T, size_first_block, start>>

\* lines 298-300
get_analytic_significance(o) ==
    /\ pc = "idle"
    /\ o \in DOMAIN objects
    /\ ret' = [op |-> "get_analytic_significance",
               outcome |-> IF objects[o].signif = Unset THEN "AttributeError" ELSE "return",
               statistic |-> Unset,
               significance |-> objects[o].signif]
    /\ UNCHANGED <<objects, engines, pc, self, entry, xyz, T, data_type,
                   fixed_thres_bool, size_first_block, start>>
    /\ UNCHANGED locals

Next ==
    \/ \E o \in ObjectIds, c \in Configurations, fraction \in Fractions :
            Construct(o, c[1], c[2], fraction, c[3])
    \/ \E o \in ObjectIds, op \in Entries, d \in Dims, dz \in DimsZ,
          T_arg \in TValues, data_type_arg \in {"None", "given"} :
            Call(o, op, Stacked(d[1], d[2], dz), T_arg, data_type_arg)
    \/ PreStep
    \/ Classify
    \/ MainStep
    \/ Aggregate
    \/ \E o \in ObjectIds : get_analytic_significance(o)

Spec == Init /\ [][Next]_vars

----------------------------------------------------------------------------
(* Properties *)

Evaluations == {"calculate_dep_measure_and_significance", "get_dependence_measure"}

\* the regime tags found when the running (or last) call started
FixedAtStart ==
    start.significance = "fixed_thres" \/ start.engine_significance = "fixed_thres"

\* positions in the invocation history of the main-step invocations
MainIdx == {i \in 1 .. Len(invocations) : invocations[i].step = "main"}

\* both blocks of the split of the running (or last) call have samples
ProperSplit == 0 < size_first_block /\ size_first_block < T

\* the last operation was an evaluation that returned, on a proper split
Returned(op) == pc = "idle" /\ ret.op = op /\ ret.outcome = "return" /\ ProperSplit

\* C1: in the p-value regime calculate_dep_measure_and_significance returns
\* as significance min(1, dim_x * dim_y * m), m the least p-value the engine
\* returned over the dim_x * dim_y main-step invocations; it lies in [0, 1].
C1_BonferroniExact ==
    [][(/\ pc = "aggregate"
        /\ entry = "calculate_dep_measure_and_significance"
        /\ ~FixedAtStart)
       => /\ Cardinality(MainIdx) = dim_x * dim_y
          /\ \E i \in MainIdx :
                /\ \A k \in MainIdx : results[i][2] <= results[k][2]
                /\ ret'.significance =
                      Float(IF dim_x * dim_y * results[i][2] < One
                            THEN dim_x * dim_y * results[i][2] ELSE One)
          /\ IsNumber(ret'.significance)
          /\ ret'.significance.float \in 0 .. One]_vars

\* a p-value-regime call returned a significance that the cap did not touch
\* and that is not a single engine p-value
C1_Witness ==
    /\ Returned("calculate_dep_measure_and_significance")
    /\ ~FixedAtStart
    /\ IsNumber(ret.significance)
    /\ ret.significance.float = 4

\* C2: with either tag "fixed_thres" at the start of the call and
\* fixed_thres_pre None, the call ends with the ValueError and the engine is
\* never invoked (the call never reaches the pre-step); __init__ does not
\* raise.
C2_ConfigErrorBeforeEngine ==
    /\ (/\ ret.op \in Evaluations
        /\ FixedAtStart
        /\ start.fixed_thres_pre = None)
       => /\ pc = "idle"
          /\ ret.outcome = "ValueError"
          /\ invocations = <<>>
    /\ ret.op = "__init__" => ret.outcome = "return"

\* the ValueError was raised for an object that was built with the p-value
\* tag on an engine in the fixed-threshold regime
C2_Witness ==
    /\ pc = "idle"
    /\ ret.op \in Evaluations
    /\ ret.outcome = "ValueError"
    /\ start.significance = "analytic"
    /\ start.engine_significance = "fixed_thres"
    /\ start.fixed_thres_pre = None

\* the significance an evaluation that returned has produced
ProducedSignificance ==
    IF ret.op = "get_dependence_measure" THEN objects[self].signif ELSE ret.significance

\* C3: fixed-threshold regime at the start of the call (fixed_thres_pre
\* supplied): both tags are "fixed_thres" during the rest of the call, every
\* invocation carries the sentinel and the significance is None; p-value
\* regime: no invocation carries the sentinel and the significance is a number.
C3_RegimeThreaded ==
    /\ pc # "idle" =>
         IF FixedAtStart
         THEN /\ objects[self].significance = "fixed_thres"
              /\ engines[objects[self].cond_ind_test].significance = "fixed_thres"
              /\ \A i \in 1 .. Len(invocations) :
                    invocations[i].alpha_or_thres = Float(Sentinel)
         ELSE \A i \in 1 .. Len(invocations) : invocations[i].alpha_or_thres = None
    /\ pc \in {"classify", "main", "aggregate"} => Len(invocations) >= dim_x * dim_y
    /\ pc = "aggregate" => Len(invocations) = 2 * dim_x * dim_y
    /\ (pc = "idle" /\ ret.op \in Evaluations /\ ret.outcome = "return") =>
         IF FixedAtStart
         THEN /\ ProducedSignificance = None
              /\ objects[self].significance = "fixed_thres"
              /\ engines[objects[self].cond_ind_test].significance = "fixed_thres"
         ELSE IsNumber(ProducedSignificance)

\* a call on an object built with the p-value tag over a fixed-threshold
\* engine has returned None
C3_Witness ==
    /\ Returned("calculate_dep_measure_and_significance")
    /\ start.significance = "analytic"
    /\ start.engine_significance = "fixed_thres"
    /\ ret.significance = None

\* C4: in both regimes the returned statistic is the maximum over the
\* dim_x * dim_y main-step invocations of the absolute value of the statistic
\* the engine returned; it is non-negative.
C4_MaxAbsMainStatistic ==
    [][pc = "aggregate"
       => /\ Cardinality(MainIdx) = dim_x * dim_y
          /\ \E i \in MainIdx :
                /\ \A k \in MainIdx : Abs(results[k][1]) <= Abs(results[i][1])
                /\ ret'.statistic = Float(Abs(results[i][1]))
          /\ ret'.statistic.float >= 0]_vars

\* a call returned the magnitude of a negative main-step statistic
C4_Witness ==
    /\ Returned("get_dependence_measure")
    /\ ret.statistic = Float(2)

\* C5: with floor(fraction * T) equal to 0 or to T the call raises the
\* degenerate-split error and returns no (statistic, significance).
C5_DegenerateSplitRaises ==
    (/\ pc = "idle"
     /\ ret.op \in Evaluations
     /\ ret.outcome # "ValueError"
     /\ size_first_block \in {0, T})
    => ret.outcome = "DegenerateSplitError"

\* the independence set as a set of pairs
IndepPairs == {<<indep_set[1][i], indep_set[2][i]>> : i \in 1 .. Len(indep_set[1])}

\* the independence set of the run with the roles of X and Y swapped, for an
\* engine that is deterministic and symmetric in x and y: the transpose
SwappedIndepSet ==
    where2d([c \in Cells(dim_y, dim_x) |-> <<c[2], c[1]>> \in IndepPairs], dim_y, dim_x)

\* the rows of `array` that lines 207-258 add to Z for pair (a, b), given the
\* independence set and the rows of the X and the Y components
AuxVariables(indep, a, b, x_rows, y_rows) ==
    LET iX == IndicesX(indep, a, b)
        iY == IndicesY(indep, a, b)
    IN  CASE Branch(Len(iX), Len(iY)) = "X" -> Range(Take(x_rows, iX))
          [] Branch(Len(iX), Len(iY)) = "Y" -> Range(Take(y_rows, iY))
          [] OTHER -> {}

\* the rows of `array` that a logged invocation conditions on besides Z
AuxOf(inv) == IF Len(inv.z) = 2 THEN Range(inv.z[2].rows) ELSE {}

\* C6: swapping the roles of X and Y leaves, for every pair and every
\* independence set (ties included), the auxiliary conditioning variables
\* the same: those of (j, jj) in the run are those of (jj, j) in the swapped
\* run, whence the same aggregated statistic.  (Stated for calls whose split
\* leaves samples in both blocks.)
C6_SwapSymmetry ==
    \A i \in MainIdx :
        ProperSplit =>
        AuxOf(invocations[i]) =
            AuxVariables(SwappedIndepSet, invocations[i].jj, invocations[i].j,
                         y_indices, x_indices)

\* the attributes of an object that make up its configuration
Configuration(o) ==
    [cond_ind_test |-> o.cond_ind_test,
     alpha_pre |-> o.alpha_pre,
     pre_step_sample_fraction |-> o.pre_step_sample_fraction,
     fixed_thres_pre |-> o.fixed_thres_pre,
     two_sided |-> o.two_sided,
     significance |-> o.significance]

\* C7: no step of an evaluation, returning or raising, changes anything of an
\* object but its stored statistic and significance: the configuration of the
\* object and of every engine stays as it was.
C7_OnlyLastResultChanges ==
    [][/\ \A o \in DOMAIN objects :
             Configuration(objects'[o]) = Configuration(objects[o])
       /\ \A e \in DOMAIN engines : engines'[e] = engines[e]]_vars

\* C8: the auxiliary set of pair (j, jj) in the main step is empty when
\* indicesX = {j' # j : (j', jj) in I} and indicesY = {jj' # jj : (j, jj') in I}
\* are empty, the X-components indicesX when |indicesX| > |indicesY|, and the
\* Y-components indicesY otherwise (every tie included); the pair's own
\* components are never in it.
C8_AuxiliarySet ==
    \A i \in MainIdx :
        LET inv == invocations[i]
            setX == {a \in 0 .. dim_x - 1 : a # inv.j /\ <<a, inv.jj>> \in IndepPairs}
            setY == {b \in 0 .. dim_y - 1 : b # inv.jj /\ <<inv.j, b>> \in IndepPairs}
            n == T - size_first_block
        IN  /\ inv.z[1] = Block(z_indices, size_first_block, T, <<n, dim_z>>)
            /\ IF setX = {} /\ setY = {}
               THEN Len(inv.z) = 1
               ELSE /\ Len(inv.z) = 2
                    /\ inv.z[2].cols = <<size_first_block, T>>
                    /\ IF Cardinality(setX) > Cardinality(setY)
                       THEN /\ Range(inv.z[2].rows) = {x_indices[a + 1] : a \in setX}
                            /\ Len(inv.z[2].rows) = Cardinality(setX)
                            /\ inv.z[2].shape = <<n, Cardinality(setX)>>
                       ELSE /\ Range(inv.z[2].rows) = {y_indices[b + 1] : b \in setY}
                            /\ Len(inv.z[2].rows) = Cardinality(setY)
                            /\ inv.z[2].shape = <<n, Cardinality(setY)>>
            /\ x_indices[inv.j + 1] \notin AuxOf(inv)
            /\ y_indices[inv.jj + 1] \notin AuxOf(inv)

\* a pair whose two candidate sets tie at one component was evaluated with
\* the Y-side component
C8_Witness ==
    \E i \in MainIdx :
        /\ ProperSplit
        /\ Len(IndicesX(indep_set, invocations[i].j, invocations[i].jj)) = 1
        /\ Len(IndicesY(indep_set, invocations[i].j, invocations[i].jj)) = 1
        /\ AuxOf(invocations[i]) \subseteq Range(y_indices)
        /\ AuxOf(invocations[i]) # {}

\* C9: with type tags supplied, the z type-tag block of every main-step
\* invocation is Z's tags followed by the tags of exactly the auxiliary
\* components of that invocation: as many columns as the augmented Z block.
\* (Stated for calls whose split leaves samples in both blocks.)
C9_TypeTagsFollowValues ==
    \A i \in MainIdx :
        LET inv == invocations[i]
        IN  (ProperSplit /\ inv.z_type # None) =>
              /\ Len(inv.z_type.tags) = Columns(inv.z)
              /\ inv.z_type.tags =
                    IF Len(inv.z) = 2 THEN z_indices \o inv.z[2].rows ELSE z_indices
              /\ inv.z_type.rows = <<size_first_block, T>>

\* C10: every cell is written once per pass, and the arguments of the
\* invocation for a pair depend on the split matrices and the independence
\* set only: they are what the pair would be given were it evaluated first,
\* on the split as Call left it, so that any order of evaluation gives them.
\* (The arguments are compared for calls whose split leaves samples in both
\* blocks.)
C10_PairsIndependent ==
    /\ \A i, k \in 1 .. Len(invocations) :
          (/\ invocations[i].step = invocations[k].step
           /\ invocations[i].j = invocations[k].j
           /\ invocations[i].jj = invocations[k].jj) => i = k
    /\ \A i \in MainIdx :
          ProperSplit =>
          invocations[i] =
              MainArgs(invocations[i].j, invocations[i].jj,
                       TypeBlock(data_type, z_indices, size_first_block, T))

\* the element at position (t, c) of array[rows, lo:hi].reshape(shape), named
\* by the <<row of array, sample index>> it was read from: reshape keeps the
\* row-major order of the elements of the len(rows) x (hi - lo) slice
Cell(b, t, c) ==
    LET n == b.cols[2] - b.cols[1]
        flat == t * b.shape[2] + c
    IN  <<b.rows[(flat \div n) + 1], b.cols[1] + (flat % n)>>

\* row t of a reshaped block
BlockRow(b, t) == [c \in 1 .. b.shape[2] |-> Cell(b, t, c - 1)]

\* row t of the np.hstack of the parts of a z argument
HstackRow(parts, t) ==
    IF Len(parts) = 2
    THEN BlockRow(parts[1], t) \o BlockRow(parts[2], t)
    ELSE BlockRow(parts[1], t)

\* C11: in every invocation row t of the x, y and z blocks holds observations
\* of one sample index: lo + t, with lo = 0 in the pre-step and lo = split in
\* the main step; the columns of the z block are the Z components in order,
\* followed in the main step by the chosen auxiliary components, for every
\* dim_z and every size of the auxiliary set.
C11_SampleAligned ==
    \A i \in 1 .. Len(invocations) :
        LET inv == invocations[i]
            lo == IF inv.step = "pre" THEN 0 ELSE size_first_block
            hi == IF inv.step = "pre" THEN size_first_block ELSE T
            components == IF Len(inv.z) = 2 THEN z_indices \o inv.z[2].rows
                          ELSE z_indices
        IN  \A t \in 0 .. hi - lo - 1 :
                /\ BlockRow(inv.x, t) = << <<x_indices[inv.j + 1], lo + t>> >>
                /\ BlockRow(inv.y, t) = << <<y_indices[inv.jj + 1], lo + t>> >>
                /\ HstackRow(inv.z, t) =
                      [k \in 1 .. Len(components) |-> <<components[k], lo + t>>]

----------------------------------------------------------------------------
(* Two objects built without cond_ind_test: both hold the one ParCorr()     *)
(* that line 73 evaluated when the class was defined.                       *)

IsolationIds == {"A", "B"}

\* constructor arguments that leave cond_ind_test to its default
DefaultEngineConfigurations == {c \in Configurations : c[1] = "None"}

NextIsolation ==
    \/ \E o \in IsolationIds, c \in DefaultEngineConfigurations,
          fraction \in Fractions :
            Construct(o, c[1], c[2], fraction, c[3])
    \/ \E o \in IsolationIds, op \in Entries :
            Call(o, op, Stacked(1, 1, 0), MaxT, "None")
    \/ PreStep
    \/ Classify
    \/ MainStep
    \/ Aggregate
    \/ \E o \in IsolationIds : get_analytic_significance(o)

SpecIsolation == Init /\ [][NextIsolation]_vars

\* C12: an object built without cond_ind_test whose own tag is still the
\* p-value tag when an evaluation starts evaluates in the p-value regime,
\* whatever has been evaluated on other objects built the same way: the
\* evaluation does not raise the configuration error and what it returns
\* carries a numeric significance.
C12_ObjectsIsolated ==
    (/\ pc = "idle"
     /\ ret.op \in Evaluations
     /\ self \in DOMAIN objects
     /\ objects[self].cond_ind_test = "default"
     /\ start.significance = "analytic")
    => /\ ret.outcome # "ValueError"
       /\ ret.outcome = "return" => IsNumber(ProducedSignificance)

====
